---- MODULE Spec2Model ----
(***************************************************************************)
(* Listening-port discovery of ExtHostTunnelService                        *)
(* (src/vs/workbench/api/node/extHostTunnelService.ts).                    *)
(*                                                                         *)
(* Text is modelled at character level: a character is a string of length  *)
(* one, a token (a whitespace-free run of a line) is a sequence of         *)
(* characters.  A connection table is a sequence of lines, each line a     *)
(* sequence of tokens; the listing of socket owners is a sequence of       *)
(* lines, each line a sequence of characters.                              *)
(***************************************************************************)
EXTENDS Integers, Sequences, FiniteSets, TLC

(***************************************************************************)
(* Bounds of the model.                                                    *)
(***************************************************************************)
\* rows of /proc/net/tcp and /proc/net/tcp6 together
MaxRows == 2
\* lines printed by the socket-owner listing
MaxLines == 2

(***************************************************************************)
(* JavaScript values.                                                      *)
(***************************************************************************)
\* the number NaN; no text of the model carries a sign, so no parse gives -1
NaN == 0 - 1
\* the value undefined, where a string (a sequence of characters) is expected
Undefined == <<"undefined">>

DecDigits == <<"0", "1", "2", "3", "4", "5", "6", "7", "8", "9">>
HexDigits == <<"0", "1", "2", "3", "4", "5", "6", "7", "8", "9",
               "A", "B", "C", "D", "E", "F">>
LowerHex == <<"0", "1", "2", "3", "4", "5", "6", "7", "8", "9",
              "a", "b", "c", "d", "e", "f">>
Letters == {"a", "b", "c", "d", "e", "f", "g", "h", "i", "j", "k", "l", "m",
            "n", "o", "p", "q", "r", "s", "t", "u", "v", "w", "x", "y", "z",
            "A", "B", "C", "D", "E", "F", "G", "H", "I", "J", "K", "L", "M",
            "N", "O", "P", "Q", "R", "S", "T", "U", "V", "W", "X", "Y", "Z"}
\* the characters the regular expression atom . does not match
LineTerminators == {"\n", "\r"}
\* the character U+0000 that separates the arguments in /proc/<pid>/cmdline
NUL == "NUL"

Range(s) == {s[i] : i \in DOMAIN s}
Min(S) == CHOOSE i \in S : \A j \in S : i <= j
Max(S) == CHOOSE i \in S : \A j \in S : j <= i

DecDigitSet == Range(DecDigits)
UpperHexSet == Range(HexDigits)
HexDigitSet == Range(HexDigits) \cup Range(LowerHex)

IsDigit(c, radix) ==
    IF radix = 10 THEN c \in DecDigitSet ELSE c \in HexDigitSet

DigitValue(c) ==
    IF c \in UpperHexSet
    THEN (CHOOSE i \in DOMAIN HexDigits : HexDigits[i] = c) - 1
    ELSE (CHOOSE i \in DOMAIN LowerHex : LowerHex[i] = c) - 1

\* the length of the longest prefix of s made of digits of the radix
DigitPrefix(s, radix) ==
    LET others == {i \in DOMAIN s : ~IsDigit(s[i], radix)}
    IN  IF others = {} THEN Len(s) ELSE Min(others) - 1

RECURSIVE DigitsValue(_, _, _)
DigitsValue(s, n, radix) ==
    IF n = 0 THEN 0
    ELSE DigitsValue(s, n - 1, radix) * radix + DigitValue(s[n])

\* parseInt(s, radix) of a string without white space or sign: the value of
\* the longest prefix of digits, after an optional 0x when the radix is 16,
\* and NaN when that prefix is empty (also for undefined, read as 'undefined')
parseInt(s, radix) ==
    LET t == IF /\ radix = 16
                /\ Len(s) >= 2
                /\ s[1] = "0"
                /\ s[2] \in {"x", "X"}
             THEN SubSeq(s, 3, Len(s))
             ELSE s
        n == DigitPrefix(t, radix)
    IN  IF s = Undefined \/ n = 0 THEN NaN ELSE DigitsValue(t, n, radix)

\* Number(s) of a directory entry name: the decimal value of a name made of
\* digits only, 0 for the empty name, NaN for any other name of the model
Number(s) ==
    IF s = <<>> THEN 0
    ELSE IF \A i \in DOMAIN s : IsDigit(s[i], 10) THEN DigitsValue(s, Len(s), 10)
    ELSE NaN

RECURSIVE numToString(_)
\* String(i) of a non-negative integer
numToString(i) ==
    IF i < 10 THEN <<DecDigits[i + 1]>>
    ELSE Append(numToString(i \div 10), DecDigits[(i % 10) + 1])

\* sub occurs in s at position i (1-based)
OccursAt(s, sub, i) ==
    /\ i >= 1
    /\ i + Len(sub) - 1 <= Len(s)
    /\ \A k \in 1..Len(sub) : s[i + k - 1] = sub[k]

\* s.indexOf(sub): the 0-based index of the first occurrence, or -1
indexOf(s, sub) ==
    LET at == {i \in 1..(Len(s) + 1) : OccursAt(s, sub, i)}
    IN  IF at = {} THEN 0 - 1 ELSE Min(at) - 1

RECURSIVE split(_, _)
\* s.split(c) for a separator of one character
split(s, c) ==
    LET at == {i \in DOMAIN s : s[i] = c}
    IN  IF at = {} THEN <<s>>
        ELSE <<SubSeq(s, 1, Min(at) - 1)>> \o split(SubSeq(s, Min(at) + 1, Len(s)), c)

\* s.replace(/\0/g, ' ')
replaceNul(s) == [i \in DOMAIN s |-> IF s[i] = NUL THEN " " ELSE s[i]]

RECURSIVE Flatten(_)
\* [].concat(...seqs)
Flatten(seqs) ==
    IF seqs = <<>> THEN <<>> ELSE Head(seqs) \o Flatten(Tail(seqs))

RECURSIVE SelectSeqIdx(_, _)
\* the increasing sequence of the indices in the set idx
SelectSeqIdx(idx, n) ==
    IF n = 0 THEN <<>>
    ELSE IF n \in idx THEN Append(SelectSeqIdx(idx, n - 1), n)
    ELSE SelectSeqIdx(idx, n - 1)

(***************************************************************************)
(* Splitting of text.  A text is kept as the sequence of its lines and a   *)
(* table line as the sequence of its tokens; the operators below add what  *)
(* trim() and split() do at the edges.                                     *)
(***************************************************************************)
RECURSIVE DropBlankHead(_)
DropBlankHead(lines) ==
    IF lines # <<>> /\ Head(lines) = <<>> THEN DropBlankHead(Tail(lines))
    ELSE lines

RECURSIVE DropBlankTail(_)
DropBlankTail(lines) ==
    IF lines # <<>> /\ lines[Len(lines)] = <<>>
    THEN DropBlankTail(SubSeq(lines, 1, Len(lines) - 1))
    ELSE lines

\* stdout.trim().split('\n'): blank lines at both ends are trimmed away, and
\* the empty text splits into one empty line
trimSplitLines(stdout) ==
    LET lines == DropBlankTail(DropBlankHead(stdout))
    IN  IF lines = <<>> THEN <<<<>>>> ELSE lines

\* line.trim().split(/\s+/): the tokens of the line; the empty line splits
\* into one empty token
trimSplitFields(line) == IF line = <<>> THEN <<<<>>>> ELSE line

(***************************************************************************)
(* loadConnectionTable                                                     *)
(***************************************************************************)
rx_queue == <<"r", "x", "_", "q", "u", "e", "u", "e">>
tm_when == <<"t", "m", "-", ">", "w", "h", "e", "n">>
local_address == <<"l", "o", "c", "a", "l", "_", "a", "d", "d", "r", "e", "s", "s">>
st == <<"s", "t">>
inode == <<"i", "n", "o", "d", "e">>
LISTEN == <<"0", "A">>

\* the header names with the two noisy ones left in
headerNames_all(header) == trimSplitFields(header)

\* the header names the values of a row are aligned to
headerNames(header) ==
    LET keep(name) == name # rx_queue /\ name # tm_when
    IN  SelectSeq(trimSplitFields(header), keep)

\* the key the i-th value (0-based i) of a row is stored under: names[i] || i
rowKey(names, i) ==
    IF i + 1 <= Len(names) /\ names[i + 1] # <<>> THEN names[i + 1]
    ELSE numToString(i)

\* values.reduce((obj, value, i) => { obj[names[i] || i] = value; ... }, {})
rowObject(names, values) ==
    LET keyOf == [i \in DOMAIN values |-> rowKey(names, i - 1)]
        last(k) == Max({i \in DOMAIN values : keyOf[i] = k})
    IN  [k \in Range(keyOf) |-> values[last(k)]]

\* obj[key], undefined when obj has no such property
prop(obj, key) == IF key \in DOMAIN obj THEN obj[key] ELSE Undefined

\* the parser that skips a row whose field count is not the header's
loadConnectionTable_skipMismatched(stdout) ==
    LET lines == trimSplitLines(stdout)
        names == headerNames(Head(lines))
        sameCount(line) == Len(trimSplitFields(line)) = Len(trimSplitFields(Head(lines)))
        rest == SelectSeq(Tail(lines), sameCount)
    IN  [i \in DOMAIN rest |-> rowObject(names, trimSplitFields(rest[i]))]

loadConnectionTable(stdout) ==
    LET lines == trimSplitLines(stdout)
        names == headerNames(Head(lines))
        rest == Tail(lines)
    IN  [i \in DOMAIN rest |-> rowObject(names, trimSplitFields(rest[i]))]

(***************************************************************************)
(* loadListeningPorts                                                      *)
(***************************************************************************)
\* the filter that lets every row through
isListening_any(row) == TRUE

\* the test of the filter: row.st === '0A'
isListening(row) == prop(row, st) = LISTEN

\* row.local_address.split(':') throws a TypeError when the row has no
\* local_address
rowThrows(row) == prop(row, local_address) = Undefined

\* the port field read as a decimal number
toConnection_decimal(row) ==
    LET address == split(prop(row, local_address), ":")
    IN  [socket |-> parseInt(prop(row, inode), 10),
         ip |-> address[1],
         port |-> IF Len(address) >= 2 THEN parseInt(address[2], 10) ELSE NaN]

toConnection(row) ==
    LET address == split(prop(row, local_address), ":")
    IN  [socket |-> parseInt(prop(row, inode), 10),
         ip |-> address[1],
         port |-> IF Len(address) >= 2 THEN parseInt(address[2], 16) ELSE NaN]

\* the entries as they are, without the Map
mapValuesByPort_all(entries) == entries

\* [...new Map(entries.map(e => [e.port, e])).values()]: one value per key, in
\* the order the keys were first set, each key with the value set last
mapValuesByPort(entries) ==
    LET first == {i \in DOMAIN entries :
                      \A j \in 1..(i - 1) : entries[j].port # entries[i].port}
        order == SelectSeqIdx(first, Len(entries))
        last(p) == Max({i \in DOMAIN entries : entries[i].port = p})
    IN  [n \in DOMAIN order |-> entries[last(entries[order[n]].port)]]

\* the result of a call: a value, or an exception thrown
Return(v) == [threw |-> FALSE, value |-> v]
Throw == [threw |-> TRUE, value |-> <<>>]

loadListeningPorts(stdouts) ==
    LET table == Flatten([i \in DOMAIN stdouts |-> loadConnectionTable(stdouts[i])])
        listening == SelectSeq(table, isListening)
    IN  IF \E i \in DOMAIN listening : rowThrows(listening[i]) THEN Throw
        ELSE Return(mapValuesByPort(
                        [i \in DOMAIN listening |-> toConnection(listening[i])]))

(***************************************************************************)
(* getSockets                                                              *)
(***************************************************************************)
procPrefix == <<"/", "p", "r", "o", "c", "/">>
fdInfix == <<"/", "f", "d", "/">>
socketInfix == <<" ", "-", ">", " ", "s", "o", "c", "k", "e", "t", ":", "[">>

\* the number of decimal digits of line from position i on
digitRun(line, i) == DigitPrefix(SubSeq(line, i, Len(line)), 10)

\* the groups of /\/proc\/(\d+)\/fd\/\d+ -> socket:\[(\d+)\]/ matched with its
\* first character at position i of the line, or <<>> when it does not match
\* there; every \d+ is followed by a character that is no digit, so it takes
\* the whole run of digits
socketMatchAt(line, i) ==
    LET p1 == i + Len(procPrefix)
        n1 == digitRun(line, p1)
        p2 == p1 + n1 + Len(fdInfix)
        n2 == digitRun(line, p2)
        p3 == p2 + n2 + Len(socketInfix)
        n3 == digitRun(line, p3)
    IN  IF /\ OccursAt(line, procPrefix, i)
           /\ n1 >= 1
           /\ OccursAt(line, fdInfix, p1 + n1)
           /\ n2 >= 1
           /\ OccursAt(line, socketInfix, p2 + n2)
           /\ n3 >= 1
           /\ OccursAt(line, <<"]">>, p3 + n3)
        THEN <<SubSeq(line, p1, p1 + n1 - 1), SubSeq(line, p3, p3 + n3 - 1)>>
        ELSE <<>>

\* RegExp.exec(line): the groups of the leftmost match, <<>> for null
socketExec(line) ==
    LET at == {i \in DOMAIN line : socketMatchAt(line, i) # <<>>}
    IN  IF at = {} THEN <<>> ELSE socketMatchAt(line, Min(at))

\* what the map callback of getSockets does with one line whose match is m;
\* match[1] of a null match throws a TypeError
socketOfLine(m) ==
    IF m = <<>> THEN Throw
    ELSE Return([pid |-> parseInt(m[1], 10), socket |-> parseInt(m[2], 10)])

getSockets(stdout) ==
    LET lines == trimSplitLines(stdout)
        each == [i \in DOMAIN lines |-> socketOfLine(socketExec(lines[i]))]
    IN  IF \E i \in DOMAIN each : each[i].threw THEN Throw
        ELSE Return([i \in DOMAIN each |-> each[i].value])

(***************************************************************************)
(* The self-exclusion test of $findCandidatePorts                          *)
(***************************************************************************)
vscodeServerDash == <<"v", "s", "c", "o", "d", "e", "-", "s", "e", "r", "v", "e", "r", "-">>
slashBin == <<"/", "b", "i", "n">>
serverMainJs == <<"o", "u", "t", "/", "v", "s", "/", "s", "e", "r", "v", "e", "r", "/",
                  "m", "a", "i", "n", ".", "j", "s">>

\* [a-zA-Z]+\/bin matched from position i on
lettersThenBin(command, i) ==
    \E n \in 1..Len(command) :
        /\ i + n - 1 <= Len(command)
        /\ \A k \in i..(i + n - 1) : command[k] \in Letters
        /\ OccursAt(command, slashBin, i + n)

\* command.match('.*\.vscode\-server\-[a-zA-Z]+\/bin.*'): the argument is a
\* string literal, in which \. \- and \/ are the characters . - and /, so the
\* expression is /.*.vscode-server-[a-zA-Z]+\/bin.*/ and the character before
\* vscode-server- is any character but a line terminator
matchesServerDir(command) ==
    \E i \in DOMAIN command :
        /\ command[i] \notin LineTerminators
        /\ OccursAt(command, vscodeServerDash, i + 1)
        /\ lettersThenBin(command, i + 1 + Len(vscodeServerDash))

\* the test of the installation directory alone
isCandidateCommand_dirOnly(command) == ~matchesServerDir(command)

\* the condition under which a port is pushed
isCandidateCommand(command) ==
    /\ ~matchesServerDir(command)
    /\ indexOf(command, serverMainJs) = 0 - 1

(***************************************************************************)
(* The host: what the kernel and the listing utility show to one call.     *)
(***************************************************************************)
\* a file that cannot be read: readFileSync throws
Missing == <<<<<<"ENOENT">>>>>>

sl == <<"s", "l">>
rem_address == <<"r", "e", "m", "_", "a", "d", "d", "r", "e", "s", "s">>
tx_queue == <<"t", "x", "_", "q", "u", "e", "u", "e">>
tr == <<"t", "r">>
retrnsmt == <<"r", "e", "t", "r", "n", "s", "m", "t">>
uid == <<"u", "i", "d">>
timeout == <<"t", "i", "m", "e", "o", "u", "t">>

\* the header line of /proc/net/tcp and /proc/net/tcp6
KernelHeader ==
    <<sl, local_address, rem_address, st, tx_queue, rx_queue, tr, tm_when,
      retrnsmt, uid, timeout, inode>>

\* 127.0.0.1, and the IPv6 address :: (shortened to 16 of its 32 digits)
Loopback4 == <<"0", "1", "0", "0", "0", "0", "7", "F">>
Any6 == <<"0", "0", "0", "0", "0", "0", "0", "0", "0", "0", "0", "0", "0", "0", "0", "0">>

\* one row as the kernel prints it: the queue and the timer columns are one
\* token each, and seven more values follow the inode (the values of the
\* columns the program does not read are shortened to one digit per number)
KernelRow(n, ip, port, state, ino) ==
    <<numToString(n) \o <<":">>,
      ip \o <<":">> \o port,
      <<"0", ":", "0">>,
      state,
      <<"0", ":", "0">>,
      <<"0", ":", "0">>,
      <<"0">>,
      <<"0">>,
      <<"0">>,
      ino,
      <<"1">>,
      <<"0">>,
      <<"0">>,
      <<"0">>,
      <<"0">>,
      <<"0">>,
      <<"0">>>>

Port8080 == <<"1", "F", "9", "0">>
Port80 == <<"0", "0", "5", "0">>
Established == <<"0", "1">>
Inode12345 == <<"1", "2", "3", "4", "5">>
Inode999 == <<"9", "9", "9">>
Pid42 == <<"4", "2">>
Pid7 == <<"7">>

HexPorts == {Port8080, Port80}

\* the sockets a host may have: listening ones on either inode, and connected
\* ones on the inode a process of the model owns
Sockets ==
    [port : HexPorts, state : {LISTEN}, ino : {Inode12345, Inode999}]
    \cup [port : HexPorts, state : {Established}, ino : {Inode12345}]

\* the sequences over S that list no element twice
Distinct(S, n) ==
    {q \in [1..n -> S] : \A i \in 1..n : \A j \in 1..n : q[i] = q[j] => i = j}

\* the sockets of the host, in kernel order: port, state and inode of each
SocketLists == UNION {Distinct(Sockets, n) : n \in 0..MaxRows}

\* the text of a connection table over the given sockets
TableText(ip, socks) ==
    <<KernelHeader>> \o
    [i \in DOMAIN socks |-> KernelRow(i - 1, ip, socks[i].port, socks[i].state, socks[i].ino)]

\* one line of ls -l /proc/[0-9]*/fd/[0-9]* | grep socket: (the columns before
\* the path shortened to the file type)
LsLine(pid, fd, ino) ==
    <<"l", " ">> \o procPrefix \o pid \o fdInfix \o fd \o socketInfix \o ino \o <<"]">>

\* a line that passes grep socket: and is no socket link: a descriptor of a
\* file whose name contains socket:
LsOtherLine ==
    <<"l", " ">> \o procPrefix \o Pid42 \o fdInfix \o
    <<"5", " ", "-", ">", " ", "/", "t", "m", "p", "/", "s", "o", "c", "k", "e", "t", ":", "x">>

LsLines ==
    {LsLine(Pid42, <<"3">>, Inode12345), LsLine(Pid7, <<"3">>, Inode999), LsOtherLine}

\* ls prints every descriptor path once
Listings == UNION {Distinct(LsLines, n) : n \in 0..MaxLines}

\* the raw content of /proc/<pid>/cmdline: the arguments separated by NUL
CmdMyServer ==
    <<"/", "u", "s", "r", "/", "b", "i", "n", "/", "m", "y", "s", "e", "r", "v", "e", "r", NUL,
      "-", "-", "p", "o", "r", "t", NUL, "8", "0", "8", "0">>
CmdAgentDir ==
    <<"/", "h", "/", ".">> \o vscodeServerDash \o <<"o", "s", "s">> \o slashBin \o
    <<"/", "n", "o", "d", "e">>
CmdAgentMain == <<"n", "o", "d", "e", NUL>> \o serverMainJs
CmdNetcat == <<"n", "c", NUL, "-", "l">>

\* an entry of /proc: fail names the read that throws for it, if any
ProcEntry(name, isDir, fail, cmdline) ==
    [name |-> name, isDir |-> isDir, fail |-> fail, cwd |-> <<"/">>, cmdline |-> cmdline]

Entries42 == {ProcEntry(Pid42, TRUE, "none", c) : c \in {CmdMyServer, CmdAgentDir}}
\* pid 7 may be a process of another user, whose cwd link cannot be read
Entries7 ==
    {ProcEntry(Pid7, TRUE, "none", c) : c \in {CmdAgentMain, CmdNetcat}}
    \cup {ProcEntry(Pid7, TRUE, "cwd", CmdNetcat)}
EntryNet == ProcEntry(<<"n", "e", "t">>, TRUE, "none", <<>>)

\* the entries of /proc in readdir order
ProcDirs ==
    {e7 \o e42 \o <<EntryNet>> :
        e7 \in {<<>>} \cup {<<e>> : e \in Entries7},
        e42 \in {<<>>} \cup {<<e>> : e \in Entries42}}

(***************************************************************************)
(* State                                                                   *)
(***************************************************************************)
VARIABLES
    isLinux,        \* platform.isLinux
    hostTcp,        \* the text of /proc/net/tcp, or Missing
    hostTcp6,       \* the text of /proc/net/tcp6, or Missing
    hostLs,         \* what the listing pipeline prints to stdout
    hostProc,       \* the entries of /proc
    pc,             \* where the call $findCandidatePorts is
    tcp, tcp6,      \* the locals of the call
    procSockets,
    procChildren,   \* the entries of procChildren the loop has yet to visit
    processes,
    ports,          \* the value the promise of the call resolved with
    io,             \* the gathering steps the call has performed
    execError,      \* the error argument of the callback of exec
    scanned         \* the entries the loop has read, as they were when read

\* the state of the parser run on its own: loadConnectionTable(tableText)
VARIABLES
    tablePc,        \* where the call of the parser is
    tableText,      \* the argument
    records         \* the value returned, once it has returned

\* the host over time and the calls made on it
VARIABLES
    events,         \* the number of processes that have exited or started
    changed,        \* the pids that exited or started during the current call
    history         \* what each earlier call read and how it ended

vars == <<isLinux, hostTcp, hostTcp6, hostLs, hostProc, pc, tcp, tcp6,
          procSockets, procChildren, processes, ports, io, execError, scanned>>

host == <<isLinux, hostTcp, hostTcp6, hostLs, hostProc>>

tableVars == <<tablePc, tableText, records>>

\* the variables of the other components, which a call leaves alone
churnVars == <<events, changed, history>>

\* the tunnel view model and the tunnel model it reads
VARIABLES
    forwarded,      \* the keys of model.forwarded, in insertion order
    detected,       \* the keys of model.detected, in insertion order
    viewPc,         \* where the call of groups() is
    values,         \* what model.candidates resolved with
    candidates,     \* what the promise of the getter candidates resolved with
    groups,         \* the local groups of groups()
    keysAtResolve   \* the keys of both maps when model.candidates resolved

viewVars == <<forwarded, detected, viewPc, values, candidates, groups, keysAtResolve>>

\* one input box of renderInputBox, for the editable of ForwardPortAction
VARIABLES
    inputValue,     \* inputBox.value
    didCall,        \* whether the function once made of done has been called
    listening,      \* whether the listeners of toDispose are attached
    released,       \* whether the disposable renderInputBox returned is disposed
    editing,        \* whether the explorer service holds the editable
    finished,       \* the calls of editableData.onFinish, in order
    forwardCalls,   \* the arguments of the calls of tunnelModel.forward
    firstEvent      \* the first of Enter, Escape, blur and dispose on the box

inputVars == <<inputValue, didCall, listening, released, editing, finished, forwardCalls,
               firstEvent>>

\* no input box
InputIdle ==
    /\ inputValue = <<>>
    /\ didCall = FALSE
    /\ listening = FALSE
    /\ released = FALSE
    /\ editing = FALSE
    /\ finished = <<>>
    /\ forwardCalls = <<>>
    /\ firstEvent = "none"

\* both maps empty, and no call of groups()
ViewIdle ==
    /\ forwarded = <<>>
    /\ detected = <<>>
    /\ viewPc = "idle"
    /\ values = <<>>
    /\ candidates = <<>>
    /\ groups = <<>>
    /\ keysAtResolve = {}

other == <<tableVars, churnVars, viewVars, inputVars>>

\* no call of the parser on its own
TableIdle == tablePc = "idle" /\ tableText = <<>> /\ records = <<>>

\* a host on which nothing exits or starts, and no earlier call
HostIdle == events = 0 /\ changed = {} /\ history = <<>>

OtherIdle == TableIdle /\ HostIdle /\ ViewIdle /\ InputIdle

\* the locals of a call that has not started
CallIdle ==
    /\ pc = "idle"
    /\ tcp = <<>>
    /\ tcp6 = <<>>
    /\ procSockets = <<>>
    /\ procChildren = <<>>
    /\ processes = <<>>
    /\ ports = <<>>
    /\ io = {}
    /\ execError = "none"
    /\ scanned = <<>>

\* a Linux host shows /proc, with the IPv4 sockets in /proc/net/tcp and the
\* IPv6 ones (here the last socket, if any) in /proc/net/tcp6, a file that a
\* host without IPv6 does not have; any other platform has none of it
Init ==
    /\ \/ /\ isLinux = TRUE
          /\ \E socks \in SocketLists, k \in 0..MaxRows :
                /\ k \in {Len(socks) - 1, Len(socks)}
                /\ hostTcp = TableText(Loopback4, SubSeq(socks, 1, k))
                /\ \/ hostTcp6 = TableText(Any6, SubSeq(socks, k + 1, Len(socks)))
                   \/ k = Len(socks) /\ hostTcp6 = Missing
          /\ hostLs \in Listings
          /\ hostProc \in ProcDirs
       \/ /\ isLinux = FALSE
          /\ hostTcp = Missing
          /\ hostTcp6 = Missing
          /\ hostLs = <<>>
          /\ hostProc = <<>>
    /\ CallIdle
    /\ OtherIdle

(***************************************************************************)
(* $findCandidatePorts                                                     *)
(***************************************************************************)
\* the two readFileSync calls, each of which throws on a file it cannot read
\* and so rejects the promise, and the start of exec
gatherTables ==
    IF hostTcp = Missing
    THEN /\ pc' = "rejected"
         /\ io' = io \cup {"tcp"}
         /\ UNCHANGED <<tcp, tcp6, ports>>
    ELSE IF hostTcp6 = Missing
    THEN /\ pc' = "rejected"
         /\ io' = io \cup {"tcp", "tcp6"}
         /\ UNCHANGED <<tcp, tcp6, ports>>
    ELSE /\ pc' = "exec"
         /\ tcp' = hostTcp
         /\ tcp6' = hostTcp6
         /\ io' = io \cup {"tcp", "tcp6", "exec"}
         /\ UNCHANGED ports

\* the call without its platform gate
FindCandidatePorts_ungated ==
    /\ pc = "idle"
    /\ gatherTables
    /\ UNCHANGED <<other, host, procSockets, procChildren, processes, execError, scanned>>

\* the call up to the await: the platform gate, then the gathering
FindCandidatePorts ==
    /\ pc = "idle"
    /\ IF ~isLinux
       THEN /\ pc' = "returned"
            /\ ports' = <<>>
            /\ UNCHANGED <<tcp, tcp6, io>>
       ELSE gatherTables
    /\ UNCHANGED <<other, host, procSockets, procChildren, processes, execError, scanned>>

\* the error the pipeline ls | grep ends with: grep exits with status 1, and
\* exec reports an error, exactly when no line is selected
execErrorOf(stdout) == IF stdout = <<>> THEN "Error" ELSE "null"

\* the callback that rejects the promise with the error of exec
ExecCallback_rejectOnError ==
    /\ pc = "exec"
    /\ execError' = execErrorOf(hostLs)
    /\ IF execErrorOf(hostLs) = "Error"
       THEN pc' = "rejected" /\ UNCHANGED procSockets
       ELSE pc' = "resolved" /\ procSockets' = hostLs
    /\ UNCHANGED <<other, host, tcp, tcp6, procChildren, processes, ports, io, scanned>>

\* the callback of exec: resolve(stdout), whatever error is
ExecCallback ==
    /\ pc = "exec"
    /\ execError' = execErrorOf(hostLs)
    /\ procSockets' = hostLs
    /\ pc' = "resolved"
    /\ UNCHANGED <<other, host, tcp, tcp6, procChildren, processes, ports, io, scanned>>

\* the resumption with processes a field of the service, never emptied
ReadProcDir_keepProcesses ==
    /\ pc = "resolved"
    /\ procChildren' = [i \in DOMAIN hostProc |-> hostProc[i].name]
    /\ scanned' = <<>>
    /\ io' = io \cup {"readdir"}
    /\ pc' = "scan"
    /\ UNCHANGED <<other, host, tcp, tcp6, procSockets, processes, ports, execError>>

\* the call resumes after the await: fs.readdirSync('/proc')
ReadProcDir ==
    /\ pc = "resolved"
    /\ procChildren' = [i \in DOMAIN hostProc |-> hostProc[i].name]
    /\ processes' = <<>>
    /\ scanned' = <<>>
    /\ io' = io \cup {"readdir"}
    /\ pc' = "scan"
    /\ UNCHANGED <<other, host, tcp, tcp6, procSockets, ports, execError>>

\* what the reads of one child find: the entry of that name, or nothing to
\* stat once the process is gone
readEntry(childName, entries) ==
    LET found == {i \in DOMAIN entries : entries[i].name = childName}
    IN  IF found = {} THEN ProcEntry(childName, FALSE, "stat", <<>>)
        ELSE entries[CHOOSE i \in found : TRUE]

\* the body of the loop without the try block's isolation of the two reads:
\* a child whose cwd or cmdline cannot be read is pushed all the same
scanChild_ignoreFailure(childName, entries) ==
    LET pid == Number(childName)
        found == {i \in DOMAIN entries : entries[i].name = childName}
        e == entries[CHOOSE i \in found : TRUE]
    IN  IF found = {} \/ e.fail = "stat" THEN <<>>
        ELSE IF ~(e.isDir /\ pid # NaN) THEN <<>>
        ELSE <<[pid |-> pid, cwd |-> e.cwd, cmd |-> replaceNul(e.cmdline)]>>

\* the body of the try block for one child: the process it pushes, as a
\* sequence of zero or one element; an exception is caught and pushes nothing
scanChild(childName, entries) ==
    LET pid == Number(childName)
        found == {i \in DOMAIN entries : entries[i].name = childName}
        e == entries[CHOOSE i \in found : TRUE]
    IN  IF found = {} \/ e.fail = "stat" THEN <<>>
        ELSE IF ~(e.isDir /\ pid # NaN) THEN <<>>
        ELSE IF e.fail \in {"cwd", "cmdline"} THEN <<>>
        ELSE <<[pid |-> pid, cwd |-> e.cwd, cmd |-> replaceNul(e.cmdline)]>>

\* one iteration of the loop over procChildren
ScanChild ==
    /\ pc = "scan"
    /\ procChildren # <<>>
    /\ processes' = processes \o scanChild(Head(procChildren), hostProc)
    /\ procChildren' = Tail(procChildren)
    /\ scanned' = Append(scanned, readEntry(Head(procChildren), hostProc))
    /\ UNCHANGED <<other, host, pc, tcp, tcp6, procSockets, ports, io, execError>>

\* sockets.reduce((m, socket) => { m[socket.socket] = socket; ... }, {}): the
\* last socket of each inode
socketMapOf(sockets) ==
    [k \in {sockets[i].socket : i \in DOMAIN sockets} |->
        sockets[Max({i \in DOMAIN sockets : sockets[i].socket = k})]]

\* processes.reduce((m, process) => { m[process.pid] = process; ... }, {})
processMapOf(procs) ==
    [k \in {procs[i].pid : i \in DOMAIN procs} |->
        procs[Max({i \in DOMAIN procs : procs[i].pid = k})]]

\* the policy that surfaces a connection without owner as 'unknown'
correlate_unknown(connections, socketMap, processMap) ==
    LET owned(c) == c.socket \in DOMAIN socketMap
        pidOf(c) == socketMap[c.socket].pid
        pushed(c) == ~owned(c) \/ isCandidateCommand(processMap[pidOf(c)].cmd)
        detailOf(c) == IF owned(c) THEN processMap[pidOf(c)].cmd
                       ELSE <<"u", "n", "k", "n", "o", "w", "n">>
        kept == SelectSeq(connections, pushed)
    IN  IF \E i \in DOMAIN connections :
               /\ owned(connections[i])
               /\ pidOf(connections[i]) \notin DOMAIN processMap
        THEN Throw
        ELSE Return([i \in DOMAIN kept |->
                        [port |-> kept[i].port, detail |-> detailOf(kept[i])]])

\* the filter and the forEach over the connections: processMap[pid].cmd throws
\* a TypeError for a pid the process map does not have
correlate(connections, socketMap, processMap) ==
    LET owned(c) == c.socket \in DOMAIN socketMap
        joined == SelectSeq(connections, owned)
        pidOf(c) == socketMap[c.socket].pid
        pushed(c) == isCandidateCommand(processMap[pidOf(c)].cmd)
        kept == SelectSeq(joined, pushed)
    IN  IF \E i \in DOMAIN joined : pidOf(joined[i]) \notin DOMAIN processMap
        THEN Throw
        ELSE Return([i \in DOMAIN kept |->
                        [port |-> kept[i].port,
                         detail |-> processMap[pidOf(kept[i])].cmd]])

\* the rest of the call, from loadListeningPorts to the return
candidatePorts(tcpText, tcp6Text, lsText, procs) ==
    LET connections == loadListeningPorts(<<tcpText, tcp6Text>>)
        sockets == getSockets(lsText)
    IN  IF connections.threw \/ sockets.threw THEN Throw
        ELSE correlate(connections.value, socketMapOf(sockets.value),
                       processMapOf(procs))

Correlate ==
    /\ pc = "scan"
    /\ procChildren = <<>>
    /\ LET r == candidatePorts(tcp, tcp6, procSockets, processes)
       IN  IF r.threw
           THEN pc' = "rejected" /\ UNCHANGED ports
           ELSE pc' = "returned" /\ ports' = r.value
    /\ UNCHANGED <<other, host, tcp, tcp6, procSockets, procChildren, processes, io, execError,
                   scanned>>

Next ==
    \/ FindCandidatePorts
    \/ ExecCallback
    \/ ReadProcDir
    \/ ScanChild
    \/ Correlate

Spec == Init /\ [][Next]_vars

(***************************************************************************)
(* The connection table parser on its own: loadConnectionTable applied to  *)
(* tables with the kernel's header and with headers in another column      *)
(* order, with rows that fit the header and rows that do not.              *)
(***************************************************************************)
HeaderInodeFirst == <<inode, rx_queue, st, tm_when, local_address>>
HeaderStateFirst == <<st, local_address, uid, inode>>
TableHeaders == {KernelHeader, HeaderInodeFirst, HeaderStateFirst}

\* the names of a header that stand for one value of a row each
QuietNames(header) ==
    LET quiet == {i \in DOMAIN header : header[i] \notin {rx_queue, tm_when}}
        order == SelectSeqIdx(quiet, Len(header))
    IN  [n \in DOMAIN order |-> header[order[n]]]

\* the value of a socket in the column of the given name
ColumnValue(name, sock) ==
    IF name = local_address THEN Loopback4 \o <<":">> \o sock.port
    ELSE IF name = st THEN sock.state
    ELSE IF name = inode THEN sock.ino
    ELSE <<"0">>

\* the row of a socket under a header: as the kernel prints it under the
\* kernel's header, one value per quiet name under another
FittingRow(header, sock) ==
    IF header = KernelHeader
    THEN KernelRow(0, Loopback4, sock.port, sock.state, sock.ino)
    ELSE [i \in DOMAIN QuietNames(header) |-> ColumnValue(QuietNames(header)[i], sock)]

FittingRows(header) == {FittingRow(header, sock) : sock \in Sockets}

\* rows cut after their second value, and rows with one value too many
CutRows(header) == {SubSeq(r, 1, 2) : r \in FittingRows(header)}
LongRows(header) == {Append(r, <<"x">>) : r \in FittingRows(header)}

TableRows(header) == FittingRows(header) \cup CutRows(header) \cup LongRows(header)

TestTables ==
    UNION {{<<header>> \o rows : rows \in UNION {[1..n -> TableRows(header)] : n \in 0..MaxRows}} :
              header \in TableHeaders}

InitTable ==
    /\ tablePc = "call"
    /\ tableText \in TestTables
    /\ records = <<>>
    /\ isLinux = FALSE
    /\ hostTcp = Missing
    /\ hostTcp6 = Missing
    /\ hostLs = <<>>
    /\ hostProc = <<>>
    /\ CallIdle
    /\ HostIdle
    /\ ViewIdle
    /\ InputIdle

\* loadConnectionTable(stdout) runs and returns
LoadTable ==
    /\ tablePc = "call"
    /\ records' = loadConnectionTable(tableText)
    /\ tablePc' = "returned"
    /\ UNCHANGED <<tableText, vars, churnVars, viewVars, inputVars>>

NextTable == LoadTable

allVars == <<vars, other>>

SpecTable == InitTable /\ [][NextTable]_allVars

(***************************************************************************)
(* A host whose processes exit and start while calls are made: pid 42      *)
(* listens on port 8080 in /proc/net/tcp, pid 7 on port 80 in              *)
(* /proc/net/tcp6; the listing shows the descriptors of the processes the  *)
(* user may read.                                                          *)
(***************************************************************************)
MaxEvents == 2
MaxCalls == 2

HostPids == {Pid42, Pid7}

\* gone, or alive with the read that fails for it
Statuses == {"gone", "none", "stat", "cwd", "cmdline"}

SocketOf(pid) ==
    IF pid = Pid42 THEN [port |-> Port8080, state |-> LISTEN, ino |-> Inode12345]
    ELSE [port |-> Port80, state |-> LISTEN, ino |-> Inode999]

CmdlineOf(pid) == IF pid = Pid42 THEN CmdMyServer ELSE CmdNetcat

\* the status of a pid in the entries of /proc
StatusOf(entries, pid) ==
    IF \E i \in DOMAIN entries : entries[i].name = pid
    THEN readEntry(pid, entries).fail
    ELSE "gone"

\* the four views of the host on processes of the given statuses
HostTcpOf(status) ==
    TableText(Loopback4, IF status[Pid42] = "gone" THEN <<>> ELSE <<SocketOf(Pid42)>>)
HostTcp6Of(status) ==
    TableText(Any6, IF status[Pid7] = "gone" THEN <<>> ELSE <<SocketOf(Pid7)>>)
HostLsOf(status) ==
    (IF status[Pid42] = "none" THEN <<LsLine(Pid42, <<"3">>, Inode12345)>> ELSE <<>>) \o
    (IF status[Pid7] = "none" THEN <<LsLine(Pid7, <<"3">>, Inode999)>> ELSE <<>>)
HostProcOf(status) ==
    (IF status[Pid7] = "gone" THEN <<>>
     ELSE <<ProcEntry(Pid7, TRUE, status[Pid7], CmdlineOf(Pid7))>>) \o
    (IF status[Pid42] = "gone" THEN <<>>
     ELSE <<ProcEntry(Pid42, TRUE, status[Pid42], CmdlineOf(Pid42))>>) \o
    <<EntryNet>>

HostIs(status) ==
    /\ hostTcp' = HostTcpOf(status)
    /\ hostTcp6' = HostTcp6Of(status)
    /\ hostLs' = HostLsOf(status)
    /\ hostProc' = HostProcOf(status)

locals == <<pc, tcp, tcp6, procSockets, procChildren, processes, ports, io, execError, scanned>>

CallRunning == pc \notin {"idle", "returned", "rejected"}

InitHost ==
    /\ isLinux = TRUE
    /\ \E status \in [HostPids -> Statuses] :
           /\ status[Pid42] \in {"none", "gone"}
           /\ hostTcp = HostTcpOf(status)
           /\ hostTcp6 = HostTcp6Of(status)
           /\ hostLs = HostLsOf(status)
           /\ hostProc = HostProcOf(status)
    /\ CallIdle
    /\ OtherIdle

\* a process exits: its socket, its descriptors and its entry of /proc go
ProcessExit ==
    /\ events < MaxEvents
    /\ \E pid \in HostPids :
           /\ StatusOf(hostProc, pid) # "gone"
           /\ HostIs([p \in HostPids |-> IF p = pid THEN "gone" ELSE StatusOf(hostProc, p)])
           /\ changed' = IF CallRunning THEN changed \cup {pid} ELSE changed
    /\ events' = events + 1
    /\ UNCHANGED <<isLinux, locals, tableVars, viewVars, inputVars, history>>

\* a process of the user starts
ProcessStart ==
    /\ events < MaxEvents
    /\ \E pid \in HostPids :
           /\ StatusOf(hostProc, pid) = "gone"
           /\ HostIs([p \in HostPids |-> IF p = pid THEN "none" ELSE StatusOf(hostProc, p)])
           /\ changed' = IF CallRunning THEN changed \cup {pid} ELSE changed
    /\ events' = events + 1
    /\ UNCHANGED <<isLinux, locals, tableVars, viewVars, inputVars, history>>

\* how a call that has settled ended
outcome == IF pc = "rejected" THEN Throw ELSE Return(ports)

\* what a call that has settled read, and how it ended
callRecord ==
    [tcp |-> tcp, tcp6 |-> tcp6, procSockets |-> procSockets, scanned |-> scanned,
     outcome |-> outcome]

\* the caller calls $findCandidatePorts again, once the call before settled
CallAgain ==
    /\ pc \in {"returned", "rejected"}
    /\ Len(history) + 1 < MaxCalls
    /\ history' = Append(history, callRecord)
    /\ changed' = {}
    /\ io' = {}
    /\ pc' = "idle"
    /\ UNCHANGED <<host, tcp, tcp6, procSockets, procChildren, processes, ports, execError,
                   scanned, tableVars, viewVars, inputVars, events>>

NextRace ==
    \/ Next
    \/ ProcessExit
    \/ ProcessStart

SpecRace == InitHost /\ [][NextRace]_allVars

\* the scan is over and the rest of the call is due: where Correlate is enabled
CorrelateDue == pc = "scan" /\ procChildren = <<>>

\* the event loop runs a callback that is due, and synchronous code runs on;
\* the last conjunct is weak fairness of Correlate, written with CorrelateDue
\* for ENABLED <<Correlate>>_allVars
FairRace ==
    /\ SpecRace
    /\ WF_allVars(ExecCallback)
    /\ WF_allVars(ReadProcDir)
    /\ WF_allVars(ScanChild)
    /\ ([]<>~CorrelateDue \/ []<><<Correlate>>_allVars)

NextCalls ==
    \/ NextRace
    \/ CallAgain

SpecCalls == InitHost /\ [][NextCalls]_allVars

(***************************************************************************)
(* The tunnel view model: groups() and the getter candidates, over a       *)
(* tunnel model whose maps change while the candidates are awaited.        *)
(***************************************************************************)
MaxValues == 2

ViewPorts == {80, 8080}

\* the detail the engine gives for a port
DetailOf(port) == IF port = 8080 THEN "/usr/bin/myserver --port 8080" ELSE "nc -l"

\* the lists model.candidates may resolve with
CandidateLists ==
    UNION {[1..n -> {[port |-> p, detail |-> DetailOf(p)] : p \in ViewPorts}] :
              n \in 0..MaxValues}

\* new TunnelItem(tunnelType, remote, localAddress, closeable, name, description)
TunnelItem(tunnelType, remote, localAddress, closeable, name, description) ==
    [tunnelType |-> tunnelType, remote |-> remote, localAddress |-> localAddress,
     closeable |-> closeable, name |-> name, description |-> description]

\* Map.has(key)
has(keys, key) == \E i \in DOMAIN keys : keys[i] = key

\* Map.set(key, ...) and Map.delete(key), on the keys
setKey(keys, key) == IF has(keys, key) THEN keys ELSE Append(keys, key)
deleteKey(keys, key) == SelectSeq(keys, LAMBDA k : k # key)

\* the getters forwarded and detected: one item per tunnel of the map
forwardedItems(keys) ==
    [i \in DOMAIN keys |->
        TunnelItem("Forwarded", keys[i], "localhost", TRUE, "undefined", "undefined")]
detectedItems(keys) ==
    [i \in DOMAIN keys |->
        TunnelItem("Detected", keys[i], "localhost", FALSE, "undefined", "undefined")]

\* the callback of then that tests the forwarded map alone
candidateItems_forwardedOnly(vals, fwd, det) ==
    LET fresh(value) == ~has(fwd, value.port)
        kept == SelectSeq(vals, fresh)
    IN  [i \in DOMAIN kept |->
            TunnelItem("Candidate", kept[i].port, "undefined", FALSE, "undefined",
                       kept[i].detail)]

\* the callback of then in the getter candidates
candidateItems(vals, fwd, det) ==
    LET fresh(value) == ~has(fwd, value.port) /\ ~has(det, value.port)
        kept == SelectSeq(vals, fresh)
    IN  [i \in DOMAIN kept |->
            TunnelItem("Candidate", kept[i].port, "undefined", FALSE, "undefined",
                       kept[i].detail)]

\* a microtask of the view model is due: the callback of then, or the
\* continuation of groups(); no event of the user or the host runs before it
MicrotaskDue == viewPc \in {"resolved", "filtered"}

\* the tunnel model forwards a port, closes one, or detects one
Forward ==
    /\ ~MicrotaskDue
    /\ \E port \in ViewPorts : forwarded' = setKey(forwarded, port) /\ forwarded' # forwarded
    /\ UNCHANGED <<detected, viewPc, values, candidates, groups, keysAtResolve>>
    /\ UNCHANGED <<vars, tableVars, churnVars, inputVars>>

Close ==
    /\ ~MicrotaskDue
    /\ \E port \in ViewPorts : forwarded' = deleteKey(forwarded, port) /\ forwarded' # forwarded
    /\ UNCHANGED <<detected, viewPc, values, candidates, groups, keysAtResolve>>
    /\ UNCHANGED <<vars, tableVars, churnVars, inputVars>>

Detect ==
    /\ ~MicrotaskDue
    /\ \E port \in ViewPorts : detected' = setKey(detected, port) /\ detected' # detected
    /\ UNCHANGED <<forwarded, viewPc, values, candidates, groups, keysAtResolve>>
    /\ UNCHANGED <<vars, tableVars, churnVars, inputVars>>

\* groups() up to its await: the groups of the two maps, then the getter
\* candidates, which registers its callback on model.candidates
Groups ==
    /\ viewPc = "idle"
    /\ groups' =
           (IF Len(forwarded) > 0
            THEN <<[tunnelType |-> "Forwarded", items |-> forwardedItems(forwarded)]>>
            ELSE <<>>) \o
           (IF Len(detected) > 0
            THEN <<[tunnelType |-> "Detected", items |-> detectedItems(detected)]>>
            ELSE <<>>)
    /\ viewPc' = "waiting"
    /\ UNCHANGED <<forwarded, detected, values, candidates, keysAtResolve>>
    /\ UNCHANGED <<vars, tableVars, churnVars, inputVars>>

\* model.candidates resolves with the list of the engine
CandidatesResolve ==
    /\ viewPc = "waiting"
    /\ values' \in CandidateLists
    /\ keysAtResolve' = Range(forwarded) \cup Range(detected)
    /\ viewPc' = "resolved"
    /\ UNCHANGED <<forwarded, detected, candidates, groups>>
    /\ UNCHANGED <<vars, tableVars, churnVars, inputVars>>

\* the callback of then runs and the promise of the getter resolves
ThenCallback ==
    /\ viewPc = "resolved"
    /\ candidates' = candidateItems(values, forwarded, detected)
    /\ viewPc' = "filtered"
    /\ UNCHANGED <<forwarded, detected, values, groups, keysAtResolve>>
    /\ UNCHANGED <<vars, tableVars, churnVars, inputVars>>

\* groups() after its await: the group of the candidates, if any, and Add
GroupsResume ==
    /\ viewPc = "filtered"
    /\ groups' = groups \o
           (IF Len(candidates) > 0
            THEN <<[tunnelType |-> "Candidate", items |-> candidates]>>
            ELSE <<>>) \o
           <<[tunnelType |-> "Add", items |-> <<>>]>>
    /\ viewPc' = "done"
    /\ UNCHANGED <<forwarded, detected, values, candidates, keysAtResolve>>
    /\ UNCHANGED <<vars, tableVars, churnVars, inputVars>>

InitView ==
    /\ isLinux = FALSE
    /\ hostTcp = Missing
    /\ hostTcp6 = Missing
    /\ hostLs = <<>>
    /\ hostProc = <<>>
    /\ CallIdle
    /\ OtherIdle

NextView ==
    \/ Forward
    \/ Close
    \/ Detect
    \/ Groups
    \/ CandidatesResolve
    \/ ThenCallback
    \/ GroupsResume

SpecView == InitView /\ [][NextView]_allVars

(***************************************************************************)
(* The input box of renderInputBox with the editable data that             *)
(* ForwardPortAction.handler sets: the user types, presses Enter or        *)
(* Escape, the box loses the focus, and the tree disposes the element.     *)
(***************************************************************************)
MaxInput == 5

\* the keys the user types
TypedChars == {"6", "9", "x"}

\* validationMessage(value) of ForwardPortAction.handler: whether it returns
\* the message (TRUE) or null (FALSE)
validationMessage(value) ==
    LET asNumber == Number(value)
    IN  \/ value = <<>>
        \/ asNumber = NaN
        \/ asNumber < 0
        \/ asNumber > 65535

\* the validation option of the box: null when validationMessage gives no
\* content, an error message otherwise; inputBox.validate() and
\* inputBox.isInputValid() are true when it gives null
validate(value) == ~validationMessage(value)
isInputValid(value) == ~validationMessage(value)

\* once(fn): the function made of fn runs fn unless it has been called
onceRuns(did) == ~did

RECURSIVE doneCalls(_, _, _, _, _, _)
\* the calls of onFinish that a call of done(success, finishEditing) makes
\* when the function has been called before or not (did): hiding the element
\* and disposing the box may take the focus from it (reblur), which runs the
\* BLUR listener, still attached, inside the call
doneCalls(did, success, finishEditing, value, cause, reblur) ==
    IF ~onceRuns(did) THEN <<>>
    ELSE (IF reblur
          THEN doneCalls(TRUE, isInputValid(value), TRUE, value, "blur", FALSE)
          ELSE <<>>) \o
         (IF finishEditing
          THEN <<[value |-> value, success |-> success, cause |-> cause]>>
          ELSE <<>>)

\* onFinish of ForwardPortAction.handler, for each call in order: the ports
\* it forwards
forwardsOf(calls) ==
    LET ok == SelectSeq(calls, LAMBDA c : c.success)
    IN  [i \in DOMAIN ok |-> Number(ok[i].value)]

\* done(success, finishEditing), called by the handler of the event cause
Done(success, finishEditing, cause) ==
    \E reblur \in BOOLEAN :
        LET calls == doneCalls(didCall, success, finishEditing, inputValue, cause, reblur)
        IN  /\ finished' = finished \o calls
            /\ forwardCalls' = forwardCalls \o forwardsOf(calls)
            /\ editing' = IF calls = <<>> THEN editing ELSE FALSE
            /\ didCall' = TRUE
            /\ listening' = FALSE
            /\ firstEvent' = IF firstEvent = "none" THEN cause ELSE firstEvent

\* the user types a character into the box
Type ==
    /\ listening
    /\ Len(inputValue) < MaxInput
    /\ \E c \in TypedChars : inputValue' = Append(inputValue, c)
    /\ UNCHANGED <<didCall, listening, released, editing, finished, forwardCalls, firstEvent>>
    /\ UNCHANGED <<vars, tableVars, churnVars, viewVars>>

\* the KEY_DOWN listener on Enter that does not validate
KeyDownEnter_unvalidated ==
    /\ listening
    /\ Done(TRUE, TRUE, "enter")
    /\ UNCHANGED <<inputValue, released>>
    /\ UNCHANGED <<vars, tableVars, churnVars, viewVars>>

\* the KEY_DOWN listener on Enter
KeyDownEnter ==
    /\ listening
    /\ IF validate(inputValue)
       THEN Done(TRUE, TRUE, "enter")
       ELSE /\ firstEvent' = IF firstEvent = "none" THEN "enter" ELSE firstEvent
            /\ UNCHANGED <<didCall, listening, editing, finished, forwardCalls>>
    /\ UNCHANGED <<inputValue, released>>
    /\ UNCHANGED <<vars, tableVars, churnVars, viewVars>>

\* the KEY_DOWN listener on Escape
KeyDownEscape ==
    /\ listening
    /\ Done(FALSE, TRUE, "escape")
    /\ UNCHANGED <<inputValue, released>>
    /\ UNCHANGED <<vars, tableVars, churnVars, viewVars>>

\* the BLUR listener
Blur ==
    /\ listening
    /\ Done(isInputValid(inputValue), TRUE, "blur")
    /\ UNCHANGED <<inputValue, released>>
    /\ UNCHANGED <<vars, tableVars, churnVars, viewVars>>

\* the disposable that renderInputBox returned is disposed
DisposeBox ==
    /\ ~released
    /\ released' = TRUE
    /\ Done(FALSE, FALSE, "dispose")
    /\ UNCHANGED inputValue
    /\ UNCHANGED <<vars, tableVars, churnVars, viewVars>>

\* renderInputBox has returned: the box shows the empty starting value and
\* its listeners are attached
InitInput ==
    /\ isLinux = FALSE
    /\ hostTcp = Missing
    /\ hostTcp6 = Missing
    /\ hostLs = <<>>
    /\ hostProc = <<>>
    /\ CallIdle
    /\ TableIdle
    /\ HostIdle
    /\ ViewIdle
    /\ inputValue = <<>>
    /\ didCall = FALSE
    /\ listening = TRUE
    /\ released = FALSE
    /\ editing = TRUE
    /\ finished = <<>>
    /\ forwardCalls = <<>>
    /\ firstEvent = "none"

NextInput ==
    \/ Type
    \/ KeyDownEnter
    \/ KeyDownEscape
    \/ Blur
    \/ DisposeBox

SpecInput == InitInput /\ [][NextInput]_allVars

(***************************************************************************)
(* What the inputs of a call say, read off the kernel's column positions   *)
(* and the shape of the listing lines rather than through the parsers.     *)
(***************************************************************************)
RowsOf(text) == IF text = <<>> THEN <<>> ELSE Tail(text)

\* the rows the call has read, IPv4 first
AllRows == RowsOf(tcp) \o RowsOf(tcp6)

RowState(r) == r[4]
RowInode(r) == r[10]

\* the number a port field stands for
HexPortNumber(hp) == IF hp = Port8080 THEN 8080 ELSE 80

RowPort(r) ==
    HexPortNumber(CHOOSE hp \in HexPorts :
                      \E ip \in {Loopback4, Any6} : r[2] = ip \o <<":">> \o hp)

PidNumber(pid) == IF pid = Pid42 THEN 42 ELSE 7

\* the pids the listing names as holders of a descriptor of the inode
Owners(ino) ==
    {PidNumber(pid) : pid \in {pid \in {Pid42, Pid7} :
                                   LsLine(pid, <<"3">>, ino) \in Range(procSockets)}}

\* every line of the listing is a socket link, and there is one at least
OnlySocketLinks ==
    /\ procSockets # <<>>
    /\ \A i \in DOMAIN procSockets :
           \E pid \in {Pid42, Pid7}, ino \in {Inode12345, Inode999} :
               procSockets[i] = LsLine(pid, <<"3">>, ino)

\* the command lines the inventory holds for a pid
CommandsOf(pid) == {processes[i].cmd : i \in {i \in DOMAIN processes : processes[i].pid = pid}}

\* the two self-exclusion patterns: a segment .vscode-server-<letters>/bin, and
\* the path out/vs/server/main.js
SelfExcluded(command) ==
    \/ \E i \in DOMAIN command, n \in 1..Len(command) :
           /\ OccursAt(command, <<".">> \o vscodeServerDash, i)
           /\ \A k \in 1..n :
                  /\ i + 14 + k <= Len(command)
                  /\ command[i + 14 + k] \in Letters
           /\ OccursAt(command, slashBin, i + 15 + n)
    \/ \E i \in DOMAIN command : OccursAt(command, serverMainJs, i)

\* a listening row whose socket the listing and the inventory trace to a
\* process that is not the agent's own
Attributable(r) ==
    /\ RowState(r) = LISTEN
    /\ \E pid \in Owners(RowInode(r)) :
           \E c \in CommandsOf(pid) : ~SelfExcluded(c)

ReturnedPorts == {ports[i].port : i \in DOMAIN ports}

(***************************************************************************)
(* Properties                                                              *)
(***************************************************************************)

\* C1: the list $findCandidatePorts returns holds no two entries with the
\* same port number.
C1_NoDuplicatePort ==
    pc = "returned" =>
        \A i \in DOMAIN ports : \A j \in DOMAIN ports :
            ports[i].port = ports[j].port => i = j

\* two attributable listening rows on one port, and the port is returned
C1_Witness ==
    /\ pc = "returned"
    /\ \E i \in DOMAIN AllRows : \E j \in DOMAIN AllRows :
           /\ i < j
           /\ RowPort(AllRows[i]) = RowPort(AllRows[j])
           /\ Attributable(AllRows[i])
           /\ Attributable(AllRows[j])
           /\ RowPort(AllRows[i]) \in ReturnedPorts

\* C2: on a Linux host the call never raises: its promise is never rejected,
\* whatever the tables, the listing and the inventory hold.
C2_NeverRejects == isLinux => pc # "rejected"

\* C3: on a platform other than Linux the call returns the empty list, does
\* not raise, and performs none of the gathering steps.
C3_NonLinuxEmpty ==
    ~isLinux =>
        /\ pc \in {"idle", "returned"}
        /\ io = {}
        /\ ports = <<>>
        /\ tcp = <<>> /\ tcp6 = <<>> /\ procSockets = <<>> /\ processes = <<>>

\* the call has returned on a platform other than Linux
C3_Witness == ~isLinux /\ pc = "returned"

\* C4: no returned entry has a detail that matches a self-exclusion pattern.
C4_NoSelfExcluded ==
    pc = "returned" => \A i \in DOMAIN ports : ~SelfExcluded(ports[i].detail)

\* the call returned although a listening socket is traced to a process whose
\* command line matches a self-exclusion pattern
C4_Witness ==
    /\ pc = "returned"
    /\ \E i \in DOMAIN AllRows :
           /\ RowState(AllRows[i]) = LISTEN
           /\ \E pid \in Owners(RowInode(AllRows[i])) :
                  \E c \in CommandsOf(pid) : SelfExcluded(c)

\* C5: every returned entry comes from a record whose inode the listing maps
\* to an owner: a record without owner contributes nothing.
C5_OwnedInode ==
    pc = "returned" =>
        \A k \in DOMAIN ports :
            \E i \in DOMAIN AllRows :
                /\ RowPort(AllRows[i]) = ports[k].port
                /\ Owners(RowInode(AllRows[i])) # {}

\* the call returned with a listening record whose inode has no owner, and
\* nothing is returned for the port of that record
C5_Witness ==
    /\ pc = "returned"
    /\ \E i \in DOMAIN AllRows :
           /\ RowState(AllRows[i]) = LISTEN
           /\ Owners(RowInode(AllRows[i])) = {}
           /\ RowPort(AllRows[i]) \notin ReturnedPorts

\* C6: every returned entry derives from a row in state 0A: a port that only
\* rows in another state have is not returned.
C6_OnlyListening ==
    pc = "returned" =>
        \A k \in DOMAIN ports :
            \E i \in DOMAIN AllRows :
                /\ RowPort(AllRows[i]) = ports[k].port
                /\ RowState(AllRows[i]) = LISTEN

\* the call returned with a connected socket of an inventoried process that
\* is not the agent's, on a port that no listening row has
C6_Witness ==
    /\ pc = "returned"
    /\ \E i \in DOMAIN AllRows :
           /\ RowState(AllRows[i]) # LISTEN
           /\ \E pid \in Owners(RowInode(AllRows[i])) :
                  \E c \in CommandsOf(pid) : ~SelfExcluded(c)
           /\ \A j \in DOMAIN AllRows :
                  RowState(AllRows[j]) = LISTEN => RowPort(AllRows[j]) # RowPort(AllRows[i])
           /\ RowPort(AllRows[i]) \notin ReturnedPorts

\* scenario A: one row 1F90, 0A, inode 12345; inode 12345 held by pid 42;
\* pid 42 run as /usr/bin/myserver --port 8080
ScenarioA ==
    /\ tcp = TableText(Loopback4, <<[port |-> Port8080, state |-> LISTEN, ino |-> Inode12345]>>)
    /\ tcp6 = <<KernelHeader>>
    /\ procSockets = <<LsLine(Pid42, <<"3">>, Inode12345)>>
    /\ \E e \in Range(hostProc) : e.name = Pid42 /\ e.cmdline = CmdMyServer

MyServerDetail ==
    <<"/", "u", "s", "r", "/", "b", "i", "n", "/", "m", "y", "s", "e", "r", "v", "e", "r", " ",
      "-", "-", "p", "o", "r", "t", " ", "8", "0", "8", "0">>

\* C7: attribution is sound: every returned entry has a listening row whose
\* port field decodes to its port and whose inode the listing maps to a pid,
\* and its detail is the command line the inventory holds for that pid, with
\* spaces for the NUL bytes; scenario A returns exactly port 8080 with the
\* command line of pid 42.
C7_AttributionSound ==
    pc = "returned" =>
        /\ \A k \in DOMAIN ports :
               /\ \E i \in DOMAIN AllRows :
                      /\ RowState(AllRows[i]) = LISTEN
                      /\ RowPort(AllRows[i]) = ports[k].port
                      /\ \E pid \in Owners(RowInode(AllRows[i])) :
                             ports[k].detail \in CommandsOf(pid)
               /\ NUL \notin Range(ports[k].detail)
        /\ ScenarioA => ports = <<[port |-> 8080, detail |-> MyServerDetail]>>

\* the call returned in scenario A
C7_Witness == pc = "returned" /\ ScenarioA

\* C8: a port with at least one listening record owned by an inventoried
\* process that is not self-excluded has exactly one entry in the returned
\* list, whatever other listening records the port has.
C8_AttributablePortReturned ==
    pc = "returned" =>
        \A i \in DOMAIN AllRows :
            Attributable(AllRows[i]) =>
                Cardinality({k \in DOMAIN ports : ports[k].port = RowPort(AllRows[i])}) = 1

\* the records getSockets is to yield: one per socket link of the listing
SocketLinkRecords(lines) ==
    LET links == SelectSeqIdx(
                     {i \in DOMAIN lines :
                          \E pid \in {Pid42, Pid7}, ino \in {Inode12345, Inode999} :
                              lines[i] = LsLine(pid, <<"3">>, ino)}, Len(lines))
        pidOf(l) == CHOOSE pid \in {Pid42, Pid7} :
                        \E ino \in {Inode12345, Inode999} : l = LsLine(pid, <<"3">>, ino)
        inoOf(l) == CHOOSE ino \in {Inode12345, Inode999} :
                        \E pid \in {Pid42, Pid7} : l = LsLine(pid, <<"3">>, ino)
    IN  [n \in DOMAIN links |->
            [pid |-> PidNumber(pidOf(lines[links[n]])),
             socket |-> IF inoOf(lines[links[n]]) = Inode12345 THEN 12345 ELSE 999]]

\* C9: getSockets drops a line that is no socket link and nothing else: it
\* does not throw, and yields the record of every socket link of the output,
\* none for the empty output.
C9_BadLineDropped ==
    pc \in {"resolved", "scan"} =>
        /\ ~getSockets(procSockets).threw
        /\ getSockets(procSockets).value = SocketLinkRecords(procSockets)

\* C10: a listening socket whose owner has no entry in the inventory is
\* dropped silently: the call returns normally.
C10_MissingProcessDropped ==
    (/\ pc \in {"returned", "rejected"}
     /\ isLinux
     /\ hostTcp6 # Missing
     /\ OnlySocketLinks
     /\ \E i \in DOMAIN AllRows :
            /\ RowState(AllRows[i]) = LISTEN
            /\ \E pid \in Owners(RowInode(AllRows[i])) : CommandsOf(pid) = {})
    => pc = "returned"

\* the position of a name among the quiet names of a header
QuietPos(header, name) ==
    CHOOSE i \in DOMAIN QuietNames(header) : QuietNames(header)[i] = name

\* every row of the table fits its header
FittingTable(text) ==
    \A i \in 2..Len(text) : text[i] \in FittingRows(text[1])

\* C11: for a well-formed table loadConnectionTable yields one record per line
\* after the header, in line order, and local_address, st and inode of each
\* record are the values of the row at the positions these names have in the
\* header once rx_queue and tm->when are removed, whatever the column order.
C11_HeaderDriven ==
    (tablePc = "returned" /\ FittingTable(tableText)) =>
        /\ Len(records) = Len(tableText) - 1
        /\ \A i \in DOMAIN records :
               \A name \in {local_address, st, inode} :
                   /\ name \in DOMAIN records[i]
                   /\ records[i][name] = tableText[i + 1][QuietPos(tableText[1], name)]

\* a table of two rows under a header with the noisy names and inode first
C11_Witness ==
    /\ tablePc = "returned"
    /\ FittingTable(tableText)
    /\ tableText[1] = HeaderInodeFirst
    /\ Len(tableText) = 3
    /\ tableText[2] # tableText[3]

\* the lines of a table whose number of fields is not the header's
MismatchedLines(text) == {i \in 2..Len(text) : Len(text[i]) # Len(text[1])}

\* the sequence s without its n-th element
Without(s, n) == SubSeq(s, 1, n - 1) \o SubSeq(s, n + 1, Len(s))

\* C12 as stated: a row whose field count differs from the header's is
\* excluded from the output of the parser.
C12_MismatchedRowExcluded ==
    tablePc = "returned" =>
        Len(records) = Len(tableText) - 1 - Cardinality(MismatchedLines(tableText))

\* C12 as amended: a row whose field count differs from the header's is
\* carried through: the parser yields a record for it that holds its values
\* under the names at their positions, it does not throw, and the records of
\* the other rows are those of the table without that row.
C12_MismatchedRowKept ==
    tablePc = "returned" =>
        /\ Len(records) = Len(tableText) - 1
        /\ \A i \in MismatchedLines(tableText) :
               /\ \A j \in DOMAIN tableText[i] :
                      j <= Len(QuietNames(tableText[1])) =>
                          /\ QuietNames(tableText[1])[j] \in DOMAIN records[i - 1]
                          /\ records[i - 1][QuietNames(tableText[1])[j]] = tableText[i][j]
               /\ Without(records, i - 1) = loadConnectionTable(Without(tableText, i))

\* a row cut short next to a row that fits the header
C12_Witness ==
    /\ tablePc = "returned"
    /\ Len(tableText) = 3
    /\ tableText[2] \in CutRows(tableText[1])
    /\ tableText[3] \in FittingRows(tableText[1])
    /\ Len(tableText[3]) = Len(tableText[1])

\* a command line with each NUL shown as a space
Spaced(text) == [i \in DOMAIN text |-> IF text[i] = NUL THEN " " ELSE text[i]]

\* the inventory the entries read give, by the claim's rule: the directories
\* of numeric name whose three reads succeeded, NUL shown as a space
InventoryOf(entries) ==
    LET good(e) == e.isDir /\ e.name \in HostPids /\ e.fail = "none"
        kept == SelectSeq(entries, good)
    IN  [i \in DOMAIN kept |->
            [pid |-> PidNumber(kept[i].name), cwd |-> kept[i].cwd,
             cmd |-> Spaced(kept[i].cmdline)]]

\* C13: in the process inventory scan a read that fails for one entry drops
\* that entry only: the scan goes on to the end, and the inventory holds
\* exactly the numeric-named directories whose three reads all succeeded.
C13_FailureDropsOneEntry ==
    /\ pc = "scan" => processes = InventoryOf(scanned)
    /\ (pc \in {"returned", "rejected"} /\ "readdir" \in io) =>
           /\ procChildren = <<>>
           /\ processes = InventoryOf(scanned)

\* the scan has met an entry it could not read before one it could
C13_Witness ==
    /\ pc \in {"returned", "rejected"}
    /\ \E i \in DOMAIN scanned : \E j \in DOMAIN scanned :
           /\ i < j
           /\ scanned[i].name = Pid7
           /\ scanned[i].fail \in {"stat", "cwd", "cmdline"}
           /\ scanned[j].name = Pid42
           /\ scanned[j].fail = "none"
    /\ Len(processes) = 1

Settled == pc \in {"returned", "rejected"}

\* a process the user may read that neither exited nor started during the call
Stable(pid) == pid \notin changed /\ StatusOf(hostProc, pid) = "none"

\* the candidate of a process of the host: its port, and its command line
CandidateOf(pid) ==
    [port |-> IF pid = Pid42 THEN 8080 ELSE 80, detail |-> Spaced(CmdlineOf(pid))]

\* C14: a process that exits or starts during a call is tolerated: the call
\* returns a list, and the list holds the candidate of every process that
\* stayed alive and unchanged for the whole call.
C14_RaceTolerated ==
    (Settled /\ changed # {}) =>
        /\ pc = "returned"
        /\ \A pid \in HostPids : Stable(pid) => CandidateOf(pid) \in Range(ports)

\* the order of the positions of a call
pcRank(p) ==
    CASE p = "idle" -> 0
      [] p = "exec" -> 1
      [] p = "resolved" -> 2
      [] p = "scan" -> 3
      [] OTHER -> 4

\* C15: every call completes: the callback of the listing utility resolves
\* the pending promise with stdout, with or without an error, never rejecting
\* it; the call then settles, it never goes back to a step it has done, and
\* its only loop takes one entry off the entries left at each turn.
C15_Completes ==
    /\ (pc = "exec") ~> Settled
    /\ [][(pc = "exec" /\ pc' # pc) =>
             (pc' = "resolved" /\ procSockets' = hostLs)]_allVars
    /\ [][pc' # pc => pcRank(pc') > pcRank(pc)]_allVars
    /\ [][(pc = "scan" /\ pc' = "scan" /\ locals' # locals) =>
             Len(procChildren') < Len(procChildren)]_allVars

\* the callback fired with an error, and the promise is resolved
C15_Witness == execError = "Error" /\ pc = "resolved" /\ procSockets = <<>>

\* the calls that have settled, in order
CompletedCalls == history \o (IF Settled THEN <<callRecord>> ELSE <<>>)

\* the outcome the reads of a call give, by the code of the call alone
ResultOf(call) ==
    candidatePorts(call.tcp, call.tcp6, call.procSockets,
                   Flatten([i \in DOMAIN call.scanned |->
                               scanChild(call.scanned[i].name, <<call.scanned[i]>>)]))

SameReads(a, b) ==
    /\ a.tcp = b.tcp
    /\ a.tcp6 = b.tcp6
    /\ a.procSockets = b.procSockets
    /\ a.scanned = b.scanned

\* C16: no state persists across calls: the outcome of every call is the
\* function of what that call read, so two calls that read the same tables,
\* listing and inventory end the same, whatever calls came before.
C16_NoStateAcrossCalls ==
    /\ \A i \in DOMAIN CompletedCalls :
           CompletedCalls[i].outcome = ResultOf(CompletedCalls[i])
    /\ \A i \in DOMAIN CompletedCalls : \A j \in DOMAIN CompletedCalls :
           SameReads(CompletedCalls[i], CompletedCalls[j]) =>
               CompletedCalls[i].outcome = CompletedCalls[j].outcome

\* a second call has returned a candidate after a first call that read
\* another host and was rejected
C16_Witness ==
    /\ Len(history) = 1
    /\ history[1].outcome.threw
    /\ pc = "returned"
    /\ ports # <<>>
    /\ ~SameReads(history[1], callRecord)

\* C17: the candidate items of the view model never include a port that was
\* a key of the forwarded map or of the detected map when the candidate
\* promise of the model resolved, and they include every other candidate the
\* model returned, in the order it returned them.
C17_CandidatesFiltered ==
    viewPc \in {"filtered", "done"} =>
        LET unknown == {i \in DOMAIN values : values[i].port \notin keysAtResolve}
            order == SelectSeqIdx(unknown, Len(values))
        IN  /\ Len(candidates) = Len(order)
            /\ \A n \in DOMAIN order :
                   /\ candidates[n].remote = values[order[n]].port
                   /\ candidates[n].description = values[order[n]].detail
                   /\ candidates[n].tunnelType = "Candidate"

\* of two candidates one was dropped for a port detected at the resolution,
\* and the other, forwarded when groups() was called and closed since, is kept
C17_Witness ==
    /\ viewPc = "done"
    /\ Len(values) = 2
    /\ values[1].port \in Range(detected)
    /\ values[1].port \notin Range(forwarded)
    /\ Len(candidates) = 1
    /\ candidates[1].remote = values[2].port
    /\ \E g \in Range(groups) :
           g.tunnelType = "Forwarded" /\ \E it \in Range(g.items) : it.remote = values[2].port

\* a text that is a port number: decimal digits, at most 65535
ValidPort(value) ==
    /\ value # <<>>
    /\ \A i \in DOMAIN value : value[i] \in DecDigitSet
    /\ DigitsValue(value, Len(value), 10) <= 65535

\* C18: for one input box onFinish is invoked at most once over any sequence
\* of Enter, Escape, blur and dispose; it is invoked with success true only
\* by Enter or blur on an input that validates; and when the box is disposed
\* before any of these events onFinish is never invoked.
C18_FinishOnce ==
    /\ Len(finished) <= 1
    /\ \A i \in DOMAIN finished :
           finished[i].success =>
               /\ finished[i].cause \in {"enter", "blur"}
               /\ ValidPort(finished[i].value)
    /\ firstEvent = "dispose" => finished = <<>>

\* Enter on 9999 has finished the edit with success, and the box has been
\* disposed since
C18_Witness ==
    /\ inputValue = <<"9", "9", "9", "9">>
    /\ finished = <<[value |-> inputValue, success |-> TRUE, cause |-> "enter"]>>
    /\ forwardCalls = <<9999>>
    /\ released
    /\ ~editing

====
